---- MODULE Spec2Model ----
(***************************************************************************)
(* Model of pkg/services/ngalert/notifier/channels/util.go:                *)
(*   - getImage / withStoredImages: the image attachment iterator          *)
(*   - sendHTTPRequest: the HTTP delivery primitive                        *)
(* Two specifications, SpecImages and SpecSend, run one call of each.      *)
(***************************************************************************)
EXTENDS Integers, Sequences, FiniteSets, TLC

VARIABLES
    \* ---- one call of withStoredImages ----
    alerts,      \* the variadic alerts argument (never written)
    index,       \* the range loop's index
    ipc,         \* "loop" | "done" | "idle"
    storeCalls,  \* imageStore.GetImage calls made so far: [index, token, out]
    visitCalls,  \* forEachFunc calls made so far: [index, image, out]
    iret,        \* the error withStoredImages returned
    ilog,        \* logger calls: [level, msg, error]
    \* ---- one call of sendHTTPRequest ----
    url,         \* the url argument
    cfg,         \* httpCfg: body, user, password
    pc,          \* position in sendHTTPRequest
    ctx,         \* the caller's context: "live" | "canceled"
    cancelledAt, \* the position at which the context was cancelled, or "never"
    request,     \* the *http.Request built
    doCalls,     \* netClient.Do calls: the request body handed to the transport
    doErr,       \* the error netClient.Do returned
    resp,        \* the *http.Response netClient.Do returned
    respBody,    \* bytes io.ReadAll has accumulated
    readErr,     \* the error io.ReadAll returned
    closeCount,  \* how often resp.Body was closed
    closeErr,    \* the error resp.Body.Close returned
    ret,         \* what sendHTTPRequest returned: [bytes, err]
    log          \* logger calls: [level, msg, body]

ivars == <<alerts, index, ipc, storeCalls, visitCalls, iret, ilog>>
svars == <<url, cfg, pc, ctx, cancelledAt, request, doCalls, doErr, resp, respBody,
           readErr, closeCount, closeErr, ret, log>>
vars == <<alerts, index, ipc, storeCalls, visitCalls, iret, ilog,
          url, cfg, pc, ctx, cancelledAt, request, doCalls, doErr, resp, respBody,
          readErr, closeCount, closeErr, ret, log>>

\* ---------------------------------------------------------------- bounds
MaxAlerts == 3
MaxBody == 2

\* ---------------------------------------------------------------- errors
\* A Go error is its chain, outermost first; every layer is that layer's own
\* message. nil is the empty chain.
NilErr == <<>>

\* fmt.Errorf("<prefix>: %w", err)
Wrap(prefix, err) == <<prefix>> \o err

\* errors.Is(err, target) for a sentinel target: some layer of the chain is it.
ErrorsIs(err, target) == \E i \in DOMAIN err : err[i] = target

ErrImageNotFound == "image not found"
ErrImagesUnavailable == "alert screenshots are unavailable"
ErrImagesDone == "images done"
ErrStoreFailure == "image store failure"
ErrDeadlineExceeded == "context deadline exceeded"
ErrVisit == "attach failed"

\* ---------------------------------------------------------------- alerts
ImageTokenAnnotation == "__alertImageToken__"

NoAnnotations == [k \in {} |-> ""]

\* The annotation sets an alert may carry: none, an unrelated one, the image
\* token annotation with an empty value, and with a token.
AnnotationSets ==
    { NoAnnotations,
      [k \in {"summary"} |-> "s"],
      [k \in {ImageTokenAnnotation} |-> ""],
      [k \in {ImageTokenAnnotation} |-> "t1"],
      [k \in {ImageTokenAnnotation, "summary"} |-> IF k = "summary" THEN "s" ELSE "t2"] }

Alerts == [Annotations : AnnotationSets]

getTokenFromAnnotations(annotations) ==
    IF ImageTokenAnnotation \in DOMAIN annotations
    THEN annotations[ImageTokenAnnotation]
    ELSE ""

\* *channels.Image: nil, or an image.
NoImage == [nil |-> TRUE, Token |-> ""]
Image(token) == [nil |-> FALSE, Token |-> token]

\* What imageStore.GetImage(ctx, token) may return: (img, err).
StoreResults(token) ==
    { [img |-> Image(token), err |-> NilErr],
      [img |-> NoImage, err |-> NilErr],
      [img |-> NoImage, err |-> <<ErrImageNotFound>>],
      [img |-> NoImage, err |-> <<ErrImagesUnavailable>>],
      [img |-> NoImage, err |-> Wrap("get image", <<ErrImageNotFound>>)],
      [img |-> Image(token), err |-> <<ErrImagesUnavailable>>],
      [img |-> NoImage, err |-> <<ErrStoreFailure>>],
      [img |-> NoImage, err |-> <<ErrDeadlineExceeded>>],
      [img |-> Image(token), err |-> <<ErrStoreFailure>>] }

\* What forEachFunc(index, image) may return.
VisitResults ==
    { NilErr, <<ErrImagesDone>>, Wrap("enough", <<ErrImagesDone>>), <<ErrVisit>> }

\* Mutant of getImage: ErrImagesUnavailable is not recognised as an absence.
getImage_UnavailableIsError(alert, out) ==
    LET token == getTokenFromAnnotations(alert.Annotations) IN
    IF token = ""
    THEN [img |-> NoImage, err |-> NilErr, queried |-> FALSE, warned |-> FALSE]
    ELSE IF ErrorsIs(out.err, ErrImageNotFound)
    THEN [img |-> NoImage, err |-> NilErr, queried |-> TRUE, warned |-> FALSE]
    ELSE IF out.err # NilErr
    THEN [img |-> NoImage, err |-> out.err, queried |-> TRUE, warned |-> TRUE]
    ELSE [img |-> out.img, err |-> NilErr, queried |-> TRUE, warned |-> FALSE]

\* Mutant of getImage: an image the store handed over is used before its
\* error is looked at.
getImage_ImageBeforeError(alert, out) ==
    LET token == getTokenFromAnnotations(alert.Annotations) IN
    IF token = ""
    THEN [img |-> NoImage, err |-> NilErr, queried |-> FALSE, warned |-> FALSE]
    ELSE IF ErrorsIs(out.err, ErrImageNotFound) \/ ErrorsIs(out.err, ErrImagesUnavailable)
    THEN [img |-> NoImage, err |-> NilErr, queried |-> TRUE, warned |-> FALSE]
    ELSE IF ~out.img.nil
    THEN [img |-> out.img, err |-> NilErr, queried |-> TRUE, warned |-> FALSE]
    ELSE [img |-> NoImage, err |-> out.err, queried |-> TRUE, warned |-> out.err # NilErr]

\* getImage(ctx, l, imageStore, alert), given what the store answers if asked:
\* the (img, err) returned, whether the store was queried, and the warning logged.
getImage(alert, out) ==
    LET token == getTokenFromAnnotations(alert.Annotations) IN
    IF token = ""
    THEN [img |-> NoImage, err |-> NilErr, queried |-> FALSE, warned |-> FALSE]
    ELSE IF ErrorsIs(out.err, ErrImageNotFound) \/ ErrorsIs(out.err, ErrImagesUnavailable)
    THEN [img |-> NoImage, err |-> NilErr, queried |-> TRUE, warned |-> FALSE]
    ELSE IF out.err # NilErr
    THEN [img |-> NoImage, err |-> out.err, queried |-> TRUE, warned |-> TRUE]
    ELSE [img |-> out.img, err |-> NilErr, queried |-> TRUE, warned |-> FALSE]

\* The bookkeeping of one getImage call at the loop's index.
Queried(r, token, out) ==
    IF r.queried
    THEN Append(storeCalls, [index |-> index, token |-> token, out |-> out])
    ELSE storeCalls

Warned(r) ==
    IF r.warned
    THEN Append(ilog, [level |-> "warn", msg |-> "failed to get image with token",
                       error |-> r.err])
    ELSE ilog

\* Mutant of VisitIndex: the number of images found so far.
VisitIndex_ImageCount == Len(visitCalls)

\* The index withStoredImages passes to forEachFunc.
VisitIndex == index

\* Mutant of StopResult: ErrImagesDone is returned like any other error.
StopResult_ReturnsErr(err) == err

\* What withStoredImages returns when forEachFunc returned ErrImagesDone.
StopResult(err) == NilErr

\* Mutant of VisitFailResult: the visitor's error is logged and dropped.
VisitFailResult_Dropped(err) == NilErr

\* What withStoredImages returns when forEachFunc returned another error.
VisitFailResult(err) == err

\* What withStoredImages returns when getImage failed.
ResolveFailResult(err) == err

\* ---- withStoredImages: one iteration of the loop, by its outcome ----

\* getImage failed: return err.
ResolveFails ==
    /\ ipc = "loop" /\ index < Len(alerts)
    /\ LET alert == alerts[index + 1]
           token == getTokenFromAnnotations(alert.Annotations) IN
       \E out \in StoreResults(token) :
          LET r == getImage(alert, out) IN
          /\ r.err # NilErr
          /\ storeCalls' = Queried(r, token, out)
          /\ ilog' = Warned(r)
          /\ iret' = ResolveFailResult(r.err)
          /\ ipc' = "done"
          /\ UNCHANGED <<alerts, index, visitCalls>>
    /\ UNCHANGED svars

\* getImage returned no image and no error: next alert.
SkipAlert ==
    /\ ipc = "loop" /\ index < Len(alerts)
    /\ LET alert == alerts[index + 1]
           token == getTokenFromAnnotations(alert.Annotations) IN
       \E out \in StoreResults(token) :
          LET r == getImage(alert, out) IN
          /\ r.err = NilErr /\ r.img.nil
          /\ storeCalls' = Queried(r, token, out)
          /\ index' = index + 1
          /\ UNCHANGED <<alerts, ipc, visitCalls, iret, ilog>>
    /\ UNCHANGED svars

\* forEachFunc returned nil: next alert.
VisitContinue ==
    /\ ipc = "loop" /\ index < Len(alerts)
    /\ LET alert == alerts[index + 1]
           token == getTokenFromAnnotations(alert.Annotations) IN
       \E out \in StoreResults(token) :
          LET r == getImage(alert, out) IN
          /\ r.err = NilErr /\ ~r.img.nil
          /\ storeCalls' = Queried(r, token, out)
          /\ visitCalls' = Append(visitCalls,
                 [index |-> VisitIndex, image |-> r.img, out |-> NilErr])
          /\ index' = index + 1
          /\ UNCHANGED <<alerts, ipc, iret, ilog>>
    /\ UNCHANGED svars

\* forEachFunc returned ErrImagesDone: return nil.
VisitStop ==
    /\ ipc = "loop" /\ index < Len(alerts)
    /\ LET alert == alerts[index + 1]
           token == getTokenFromAnnotations(alert.Annotations) IN
       \E out \in StoreResults(token), v \in VisitResults :
          LET r == getImage(alert, out) IN
          /\ r.err = NilErr /\ ~r.img.nil
          /\ v # NilErr /\ ErrorsIs(v, ErrImagesDone)
          /\ storeCalls' = Queried(r, token, out)
          /\ visitCalls' = Append(visitCalls,
                 [index |-> VisitIndex, image |-> r.img, out |-> v])
          /\ iret' = StopResult(v)
          /\ ipc' = "done"
          /\ UNCHANGED <<alerts, index, ilog>>
    /\ UNCHANGED svars

\* forEachFunc returned another error: log it and return it.
VisitFails ==
    /\ ipc = "loop" /\ index < Len(alerts)
    /\ LET alert == alerts[index + 1]
           token == getTokenFromAnnotations(alert.Annotations) IN
       \E out \in StoreResults(token), v \in VisitResults :
          LET r == getImage(alert, out) IN
          /\ r.err = NilErr /\ ~r.img.nil
          /\ v # NilErr /\ ~ErrorsIs(v, ErrImagesDone)
          /\ storeCalls' = Queried(r, token, out)
          /\ visitCalls' = Append(visitCalls,
                 [index |-> VisitIndex, image |-> r.img, out |-> v])
          /\ ilog' = Append(ilog, [level |-> "error",
                 msg |-> "Failed to attach image to notification", error |-> v])
          /\ iret' = VisitFailResult(v)
          /\ ipc' = "done"
          /\ UNCHANGED <<alerts, index>>
    /\ UNCHANGED svars

\* The range is exhausted: return nil.
LoopExit ==
    /\ ipc = "loop" /\ index = Len(alerts)
    /\ iret' = NilErr
    /\ ipc' = "done"
    /\ UNCHANGED <<alerts, index, storeCalls, visitCalls, ilog>>
    /\ UNCHANGED svars

withStoredImages ==
    \/ ResolveFails
    \/ SkipAlert
    \/ VisitContinue
    \/ VisitStop
    \/ VisitFails
    \/ LoopExit

AlertLists == UNION { [1..n -> Alerts] : n \in 0..MaxAlerts }

ImagesStart ==
    /\ alerts \in AlertLists
    /\ index = 0
    /\ ipc = "loop"
    /\ storeCalls = <<>>
    /\ visitCalls = <<>>
    /\ iret = NilErr
    /\ ilog = <<>>

ImagesIdle ==
    /\ alerts = <<>>
    /\ index = 0
    /\ ipc = "idle"
    /\ storeCalls = <<>>
    /\ visitCalls = <<>>
    /\ iret = NilErr
    /\ ilog = <<>>

\* ------------------------------------------------------- sendHTTPRequest

\* []byte: nil, or a slice.
NilBytes == [nil |-> TRUE, data |-> <<>>]
Bytes(b) == [nil |-> FALSE, data |-> b]

RECURSIVE Flatten(_)
Flatten(ss) == IF ss = <<>> THEN <<>> ELSE Head(ss) \o Flatten(Tail(ss))

\* err.Error() of a chain built with %w: the layers' texts, outermost first.
\* In sendHTTPRequest every layer is a sequence of characters and phrases.
ErrorText(err) == Flatten(err)

DigitChars == <<"0", "1", "2", "3", "4", "5", "6", "7", "8", "9">>

\* fmt's %d of a non-negative int.
RECURSIVE FormatInt(_)
FormatInt(n) ==
    IF n < 10 THEN <<DigitChars[n + 1]>>
    ELSE FormatInt(n \div 10) \o <<DigitChars[(n % 10) + 1]>>

\* string(respBody): the response bytes the model uses, as characters.
ByteChar(b) == IF b = 120 THEN "x" ELSE IF b = 121 THEN "y" ELSE "?"
String(bs) == [i \in DOMAIN bs |-> ByteChar(bs[i])]

Contains(text, sub) ==
    \E i \in 0..(Len(text) - Len(sub)) : SubSeq(text, i + 1, i + Len(sub)) = sub

\* encoding/base64 StdEncoding: a sextet per character, 64 for the padding '='.
Pad == 64

RECURSIVE Base64Encode(_)
Base64Encode(bs) ==
    IF Len(bs) = 0 THEN <<>>
    ELSE IF Len(bs) = 1
    THEN <<bs[1] \div 4, (bs[1] % 4) * 16, Pad, Pad>>
    ELSE IF Len(bs) = 2
    THEN <<bs[1] \div 4, (bs[1] % 4) * 16 + bs[2] \div 16, (bs[2] % 16) * 4, Pad>>
    ELSE <<bs[1] \div 4, (bs[1] % 4) * 16 + bs[2] \div 16,
           (bs[2] % 16) * 4 + bs[3] \div 64, bs[3] % 64>>
         \o Base64Encode(SubSeq(bs, 4, Len(bs)))

\* (*Request).SetBasicAuth(username, password): the Authorization header.
BasicAuth(username, password) ==
    [scheme |-> "Basic", credentials |-> Base64Encode(username \o <<58>> \o password)]

\* Mutant of NeedsBasicAuth: the username alone decides.
NeedsBasicAuth_UserOnly(c) == c.user # <<>>

\* cfg.user != "" && cfg.password != ""
NeedsBasicAuth(c) == c.user # <<>> /\ c.password # <<>>

\* http.NewRequestWithContext fails on a URL string it cannot parse.
BadURL == "http://[::1"
URLs == {"https://hooks.example/api", BadURL}

NoRequest == [built |-> FALSE, Method |-> "", URL |-> "", Body |-> NilBytes,
              Header |-> [k \in {} |-> ""]]

\* The request sendHTTPRequest builds: POST, the body verbatim (no body for an
\* empty cfg.body), basic auth if asked for, Content-Type and User-Agent.
BuildRequest(u, c) ==
    LET auth == IF NeedsBasicAuth(c) THEN {"Authorization"} ELSE {} IN
    [built |-> TRUE,
     Method |-> "POST",
     URL |-> u,
     Body |-> IF Len(c.body) > 0 THEN Bytes(c.body) ELSE NilBytes,
     Header |-> [k \in auth \cup {"Content-Type", "User-Agent"} |->
                    IF k = "Authorization" THEN BasicAuth(c.user, c.password)
                    ELSE IF k = "Content-Type"
                    THEN [scheme |-> "application/json", credentials |-> <<>>]
                    ELSE [scheme |-> "Grafana", credentials |-> <<>>]]]

ErrContextCanceled == <<<<"context canceled">>>>

\* What netClient.Do may fail with while the context is live: DNS, connect,
\* TLS handshake (5 s), dial (30 s) and client (30 s) timeouts.
TransportErrors ==
    { Wrap(<<"Post: ">>, <<<<"dial tcp: lookup: no such host">>>>),
      Wrap(<<"Post: ">>, <<<<"dial tcp: connection refused">>>>),
      Wrap(<<"Post: ">>, <<<<"net/http: TLS handshake timeout">>>>),
      Wrap(<<"Post: ">>, <<<<"context deadline exceeded (Client.Timeout exceeded)">>>>) }

\* What a read of resp.Body may fail with while the context is live.
ReadErrors ==
    { <<<<"unexpected EOF">>>>,
      <<<<"context deadline exceeded (Client.Timeout exceeded while reading body)">>>> }

CloseErrors == { NilErr, <<<<"close: connection reset">>>> }

Statuses == {199, 200, 204, 299, 300, 404, 500}

RespBytes == {120, 121}
RespBodies == UNION { [1..n -> RespBytes] : n \in 0..MaxBody }

NoResponse == [present |-> FALSE, StatusCode |-> 0, Body |-> <<>>]

\* Mutant of DoFailResult: the transport's error is wrapped.
DoFailResult_Wrapped(e) ==
    [bytes |-> NilBytes, err |-> Wrap(<<"failed to send HTTP request: ">>, e)]

\* return nil, err
DoFailResult(e) == [bytes |-> NilBytes, err |-> e]

\* Mutant of ReadFailResult: what was read so far is returned with the error.
ReadFailResult_Partial(e) ==
    [bytes |-> Bytes(respBody), err |-> Wrap(<<"failed to read response body: ">>, e)]

\* return nil, fmt.Errorf("failed to read response body: %w", err)
ReadFailResult(e) ==
    [bytes |-> NilBytes, err |-> Wrap(<<"failed to read response body: ">>, e)]

\* Mutant of IsSuccess: only 200 is a success.
IsSuccess_Only200(code) == code = 200

\* resp.StatusCode/100 == 2
IsSuccess(code) == code \div 100 = 2

\* fmt.Errorf("failed to send HTTP request - status code %d", resp.StatusCode)
StatusError(code) ==
    << <<"failed to send HTTP request - status code ">> \o FormatInt(code) >>

LogEntry(level, msg, body, err) ==
    [level |-> level, msg |-> msg, body |-> body, error |-> err]

\* http.NewRequestWithContext fails: return nil, wrapped.
NewRequestFails ==
    /\ pc = "new"
    /\ url = BadURL
    /\ ret' = [bytes |-> NilBytes,
               err |-> Wrap(<<"failed to create HTTP request: ">>,
                            <<<<"parse: missing ']' in host">>>>)]
    /\ pc' = "done"
    /\ UNCHANGED <<url, cfg, ctx, cancelledAt, request, doCalls, doErr, resp,
                   respBody, readErr, closeCount, closeErr, log>>
    /\ UNCHANGED ivars

\* The request is built, with its headers and the transport and client set up.
NewRequest ==
    /\ pc = "new"
    /\ url # BadURL
    /\ request' = BuildRequest(url, cfg)
    /\ pc' = "do"
    /\ UNCHANGED <<url, cfg, ctx, cancelledAt, doCalls, doErr, resp,
                   respBody, readErr, closeCount, closeErr, ret, log>>
    /\ UNCHANGED ivars

\* netClient.Do(request) fails with no response: return nil, err. With the
\* context cancelled it fails with the context's error.
DoFails ==
    /\ pc = "do"
    /\ \E e \in (IF ctx = "canceled"
                 THEN {Wrap(<<"Post: ">>, ErrContextCanceled)}
                 ELSE TransportErrors) :
          /\ doErr' = e
          /\ ret' = DoFailResult(e)
    /\ doCalls' = Append(doCalls, request.Body.data)
    /\ pc' = "done"
    /\ UNCHANGED <<url, cfg, ctx, cancelledAt, request, resp,
                   respBody, readErr, closeCount, closeErr, log>>
    /\ UNCHANGED ivars

\* netClient.Do(request) fails on its redirect policy: it hands back the last
\* response with its body already closed, and an error: return nil, err.
DoRedirectFails ==
    /\ pc = "do"
    /\ ctx = "live"
    /\ resp' = [present |-> TRUE, StatusCode |-> 302, Body |-> <<>>]
    /\ closeCount' = closeCount + 1
    /\ doErr' = Wrap(<<"Post: ">>, <<<<"stopped after 10 redirects">>>>)
    /\ ret' = DoFailResult(doErr')
    /\ doCalls' = Append(doCalls, request.Body.data)
    /\ pc' = "done"
    /\ UNCHANGED <<url, cfg, ctx, cancelledAt, request,
                   respBody, readErr, closeErr, log>>
    /\ UNCHANGED ivars

\* netClient.Do(request) returns a response; the deferred Close is registered.
DoResponds ==
    /\ pc = "do"
    /\ ctx = "live"
    /\ \E code \in Statuses, body \in RespBodies :
          resp' = [present |-> TRUE, StatusCode |-> code, Body |-> body]
    /\ doCalls' = Append(doCalls, request.Body.data)
    /\ pc' = "read"
    /\ UNCHANGED <<url, cfg, ctx, cancelledAt, request, doErr,
                   respBody, readErr, closeCount, closeErr, ret, log>>
    /\ UNCHANGED ivars

\* io.ReadAll: one more read of resp.Body succeeds.
ReadChunk ==
    /\ pc = "read"
    /\ ctx = "live"
    /\ Len(respBody) < Len(resp.Body)
    /\ respBody' = Append(respBody, resp.Body[Len(respBody) + 1])
    /\ UNCHANGED <<url, cfg, pc, ctx, cancelledAt, request, doCalls, doErr, resp,
                   readErr, closeCount, closeErr, ret, log>>
    /\ UNCHANGED ivars

\* Mutant of ReadFails: the body is closed after the read rather than deferred,
\* and the read's failure returns before that.
ReadFails_NoClose ==
    /\ pc = "read"
    /\ \E e \in (IF ctx = "canceled" THEN {ErrContextCanceled} ELSE ReadErrors) :
          /\ readErr' = e
          /\ ret' = ReadFailResult(e)
    /\ pc' = "done"
    /\ UNCHANGED <<url, cfg, ctx, cancelledAt, request, doCalls, doErr, resp,
                   respBody, closeCount, closeErr, log>>
    /\ UNCHANGED ivars

\* io.ReadAll: a read of resp.Body fails (with the context's error once the
\* context is cancelled): return nil, wrapped.
ReadFails ==
    /\ pc = "read"
    /\ \E e \in (IF ctx = "canceled" THEN {ErrContextCanceled} ELSE ReadErrors) :
          /\ readErr' = e
          /\ ret' = ReadFailResult(e)
    /\ pc' = "defer"
    /\ UNCHANGED <<url, cfg, ctx, cancelledAt, request, doCalls, doErr, resp,
                   respBody, closeCount, closeErr, log>>
    /\ UNCHANGED ivars

\* io.ReadAll reached EOF and the status is not 2xx: warn with the body,
\* return nil and the status error.
StatusFails ==
    /\ pc = "read"
    /\ ctx = "live"
    /\ Len(respBody) = Len(resp.Body)
    /\ ~IsSuccess(resp.StatusCode)
    /\ log' = Append(log, LogEntry("warn", "HTTP request failed", String(respBody), NilErr))
    /\ ret' = [bytes |-> NilBytes, err |-> StatusError(resp.StatusCode)]
    /\ pc' = "defer"
    /\ UNCHANGED <<url, cfg, ctx, cancelledAt, request, doCalls, doErr, resp,
                   respBody, readErr, closeCount, closeErr>>
    /\ UNCHANGED ivars

\* io.ReadAll reached EOF and the status is 2xx: return respBody, nil.
StatusOK ==
    /\ pc = "read"
    /\ ctx = "live"
    /\ Len(respBody) = Len(resp.Body)
    /\ IsSuccess(resp.StatusCode)
    /\ log' = Append(log, LogEntry("debug", "sending HTTP request succeeded", <<>>, NilErr))
    /\ ret' = [bytes |-> Bytes(respBody), err |-> NilErr]
    /\ pc' = "defer"
    /\ UNCHANGED <<url, cfg, ctx, cancelledAt, request, doCalls, doErr, resp,
                   respBody, readErr, closeCount, closeErr>>
    /\ UNCHANGED ivars

\* The deferred function: resp.Body.Close(), a failure of which is logged.
CloseBody ==
    /\ pc = "defer"
    /\ closeCount' = closeCount + 1
    /\ \E e \in CloseErrors :
          /\ closeErr' = e
          /\ log' = IF e # NilErr
                    THEN Append(log, LogEntry("warn", "failed to close response body", <<>>, e))
                    ELSE log
    /\ pc' = "done"
    /\ UNCHANGED <<url, cfg, ctx, cancelledAt, request, doCalls, doErr, resp,
                   respBody, readErr, ret>>
    /\ UNCHANGED ivars

\* The caller's context is cancelled, or its deadline expires, during the call.
CtxCancel ==
    /\ pc \in {"new", "do", "read", "defer"}
    /\ ctx = "live"
    /\ ctx' = "canceled"
    /\ cancelledAt' = pc
    /\ UNCHANGED <<url, cfg, pc, request, doCalls, doErr, resp,
                   respBody, readErr, closeCount, closeErr, ret, log>>
    /\ UNCHANGED ivars

sendHTTPRequest ==
    \/ NewRequestFails
    \/ NewRequest
    \/ DoFails
    \/ DoRedirectFails
    \/ DoResponds
    \/ ReadChunk
    \/ ReadFails
    \/ StatusFails
    \/ StatusOK
    \/ CloseBody

Users == { <<>>, <<117>>, <<97, 100, 109>> }
Passwords == { <<>>, <<112>>, <<115, 51, 99, 114>> }
ReqBodies == { <<>>, <<123, 125>> }

SendStart ==
    /\ url \in URLs
    /\ cfg \in [body : ReqBodies, user : Users, password : Passwords]
    /\ pc = "new"
    /\ ctx = "live"
    /\ cancelledAt = "never"
    /\ request = NoRequest
    /\ doCalls = <<>>
    /\ doErr = NilErr
    /\ resp = NoResponse
    /\ respBody = <<>>
    /\ readErr = NilErr
    /\ closeCount = 0
    /\ closeErr = NilErr
    /\ ret = [bytes |-> NilBytes, err |-> NilErr]
    /\ log = <<>>

SendIdle ==
    /\ url = ""
    /\ cfg = [body |-> <<>>, user |-> <<>>, password |-> <<>>]
    /\ pc = "idle"
    /\ ctx = "live"
    /\ cancelledAt = "never"
    /\ request = NoRequest
    /\ doCalls = <<>>
    /\ doErr = NilErr
    /\ resp = NoResponse
    /\ respBody = <<>>
    /\ readErr = NilErr
    /\ closeCount = 0
    /\ closeErr = NilErr
    /\ ret = [bytes |-> NilBytes, err |-> NilErr]
    /\ log = <<>>

InitSend == SendStart /\ ImagesIdle
NextSend == sendHTTPRequest \/ CtxCancel
SpecSend == InitSend /\ [][NextSend]_vars

InitImages == ImagesStart /\ SendIdle
NextImages == withStoredImages
SpecImages == InitImages /\ [][NextImages]_vars

\* ------------------------------------------------ withStoredImages: claims

\* The store's answer is one getImage turns into "no image, no error".
IsAbsence(out) ==
    ErrorsIs(out.err, ErrImageNotFound) \/ ErrorsIs(out.err, ErrImagesUnavailable)

\* The store's answer is an error that is not a recognised absence.
IsStoreFailure(out) == out.err # NilErr /\ ~IsAbsence(out)

TokenAt(j) == getTokenFromAnnotations(alerts[j + 1].Annotations)

\* The alert at position j resolved to an image: the store was asked and
\* getImage handed its image on.
ResolvedAt(j) ==
    \E k \in DOMAIN storeCalls :
        /\ storeCalls[k].index = j
        /\ LET r == getImage(alerts[j + 1], storeCalls[k].out) IN
           r.err = NilErr /\ ~r.img.nil

StoreIndices == { storeCalls[k].index : k \in DOMAIN storeCalls }
VisitIndices == { visitCalls[k].index : k \in DOMAIN visitCalls }

VisitsIncreasing ==
    \A k, l \in DOMAIN visitCalls :
        k < l => visitCalls[k].index < visitCalls[l].index

StoreCallsIncreasing ==
    \A k, l \in DOMAIN storeCalls :
        k < l => storeCalls[k].index < storeCalls[l].index

\* C1: when forEachFunc returns ErrImagesDone at index i, withStoredImages
\* returns nil, forEachFunc has been called exactly for the indices <= i whose
\* alert resolved to an image, in increasing order, and neither the store nor
\* forEachFunc is called for an index > i.
C1_StopEndsIterationWithoutError ==
    \A k \in DOMAIN visitCalls :
        ErrorsIs(visitCalls[k].out, ErrImagesDone) =>
            LET i == visitCalls[k].index IN
            /\ ipc = "done"
            /\ iret = NilErr
            /\ k = Len(visitCalls)
            /\ VisitIndices = { j \in 0..i : ResolvedAt(j) }
            /\ VisitsIncreasing
            /\ \A j \in StoreIndices \cup VisitIndices : j <= i

\* A stop at an index >= 1 that is not the last alert, after an earlier visit
\* and an alert that was skipped, with a later alert that carries a token.
C1_Witness ==
    /\ ipc = "done"
    /\ Len(visitCalls) = 2
    /\ ErrorsIs(visitCalls[2].out, ErrImagesDone)
    /\ visitCalls[2].out # <<ErrImagesDone>>
    /\ Len(alerts) = visitCalls[2].index + 2
    /\ TokenAt(Len(alerts) - 1) # ""
    /\ iret = NilErr

\* C2: when the store returns, for the alert at index i, an error that is
\* neither ErrImageNotFound nor ErrImagesUnavailable, iteration stops at once:
\* forEachFunc has been called only for indices < i, no later alert is queried,
\* and withStoredImages returns that same error.
C2_StoreFailureStopsAndPropagates ==
    \A k \in DOMAIN storeCalls :
        IsStoreFailure(storeCalls[k].out) =>
            LET i == storeCalls[k].index IN
            /\ ipc = "done"
            /\ iret = storeCalls[k].out.err
            /\ k = Len(storeCalls)
            /\ \A j \in VisitIndices : j < i
            /\ \A j \in StoreIndices : j <= i

\* A store failure (the store even handed an image along with it) at a middle
\* index, after an earlier visit, with a later alert that carries a token.
C2_Witness ==
    /\ ipc = "done"
    /\ Len(storeCalls) = 2
    /\ storeCalls[2].out = [img |-> Image(storeCalls[2].token), err |-> <<ErrStoreFailure>>]
    /\ Len(visitCalls) = 1
    /\ Len(alerts) = storeCalls[2].index + 2
    /\ TokenAt(Len(alerts) - 1) # ""
    /\ iret = <<ErrStoreFailure>>

\* C3: when forEachFunc returns an error other than ErrImagesDone at index i,
\* no later alert is resolved or visited and withStoredImages returns that
\* error; when forEachFunc returns nil, the loop goes on to the next alert.
C3_VisitorErrorPropagates ==
    \A k \in DOMAIN visitCalls :
        LET v == visitCalls[k] IN
        /\ (v.out # NilErr /\ ~ErrorsIs(v.out, ErrImagesDone)) =>
               /\ ipc = "done"
               /\ iret = v.out
               /\ k = Len(visitCalls)
               /\ \A j \in StoreIndices \cup VisitIndices : j <= v.index
        /\ v.out = NilErr =>
               /\ index > v.index
               /\ \A j \in (v.index + 1)..(index - 1) :
                     TokenAt(j) = "" \/ j \in StoreIndices

\* A visitor failure at a middle index after a successful visit.
C3_Witness ==
    /\ ipc = "done"
    /\ Len(visitCalls) = 2
    /\ visitCalls[1].out = NilErr
    /\ visitCalls[2].out = <<ErrVisit>>
    /\ Len(alerts) = visitCalls[2].index + 2
    /\ TokenAt(Len(alerts) - 1) # ""
    /\ iret = <<ErrVisit>>

\* C4: an alert without the image token annotation, and an alert whose token
\* the store reports as not found or unavailable, yields (nil, nil) from
\* getImage, is never visited, and does not end the loop; a batch of only such
\* alerts returns nil with no visit.
C4_AbsenceIsNotAFailure ==
    /\ \A i \in DOMAIN alerts :
          LET a == alerts[i] IN
          \A out \in StoreResults(TokenAt(i - 1)) :
              (ImageTokenAnnotation \notin DOMAIN a.Annotations \/ IsAbsence(out)) =>
                  /\ getImage(a, out).img.nil
                  /\ getImage(a, out).err = NilErr
    /\ \A j \in VisitIndices :
          /\ ImageTokenAnnotation \in DOMAIN alerts[j + 1].Annotations
          /\ \A k \in DOMAIN storeCalls :
                storeCalls[k].index = j => ~IsAbsence(storeCalls[k].out)
    /\ \A k \in DOMAIN storeCalls :
          IsAbsence(storeCalls[k].out) => index > storeCalls[k].index
    /\ (ipc = "done" /\ index < Len(alerts)) =>
          /\ ImageTokenAnnotation \in DOMAIN alerts[index + 1].Annotations
          /\ Len(storeCalls) > 0
          /\ storeCalls[Len(storeCalls)].index = index
          /\ ~IsAbsence(storeCalls[Len(storeCalls)].out)
    /\ (ipc = "done"
        /\ \A j \in 0..(Len(alerts) - 1) :
              \/ ImageTokenAnnotation \notin DOMAIN alerts[j + 1].Annotations
              \/ \E k \in DOMAIN storeCalls :
                    storeCalls[k].index = j /\ IsAbsence(storeCalls[k].out)) =>
          /\ iret = NilErr
          /\ visitCalls = <<>>
          /\ index = Len(alerts)

\* A finished batch of three: one alert without the annotation, one not found,
\* one unavailable.
C4_Witness ==
    /\ ipc = "done"
    /\ Len(alerts) = 3
    /\ \E i \in DOMAIN alerts : ImageTokenAnnotation \notin DOMAIN alerts[i].Annotations
    /\ Len(storeCalls) = 2
    /\ \E k \in DOMAIN storeCalls : storeCalls[k].out.err = <<ErrImageNotFound>>
    /\ \E k \in DOMAIN storeCalls : storeCalls[k].out.err = <<ErrImagesUnavailable>>
    /\ visitCalls = <<>>
    /\ iret = NilErr

\* C9: the store is queried at most once per alert and forEachFunc is called
\* at most once per alert, so each at most Len(alerts) times; both in strictly
\* increasing input order; and the index passed to forEachFunc is the alert's
\* zero-based position in the input, not the number of images found so far.
C9_BoundedInOrderByPosition ==
    /\ Len(storeCalls) <= Len(alerts)
    /\ Len(visitCalls) <= Len(alerts)
    /\ StoreCallsIncreasing
    /\ VisitsIncreasing
    /\ StoreIndices \subseteq 0..(Len(alerts) - 1)
    /\ \A k \in DOMAIN storeCalls :
          storeCalls[k].token = TokenAt(storeCalls[k].index)
    /\ \A k \in DOMAIN visitCalls :
          LET v == visitCalls[k] IN
          /\ v.index \in 0..(Len(alerts) - 1)
          /\ \E s \in DOMAIN storeCalls :
                /\ storeCalls[s].index = v.index
                /\ storeCalls[s].out.img = v.image
          /\ v.image.Token = TokenAt(v.index)

\* Every alert of a batch of three was queried, and a visit's index differs
\* from the number of images found before it.
C9_Witness ==
    /\ ipc = "done"
    /\ Len(alerts) = 3
    /\ Len(storeCalls) = 3
    /\ Len(visitCalls) = 2
    /\ visitCalls[1].index = 1
    /\ visitCalls[2].index = 2

\* ------------------------------------------------- sendHTTPRequest: claims

\* The call has returned (or only its deferred Close is left to run).
Returned == pc \in {"defer", "done"}

\* The response was read to its end, so the status decided the outcome.
Classified == Returned /\ resp.present /\ doErr = NilErr /\ readErr = NilErr

RECURSIVE Base64Decode(_)
Base64Decode(cs) ==
    IF Len(cs) < 4 THEN <<>>
    ELSE LET b1 == cs[1] * 4 + cs[2] \div 16
             b2 == (cs[2] % 16) * 16 + cs[3] \div 4
             b3 == (cs[3] % 4) * 64 + cs[4] IN
         IF cs[3] = Pad THEN <<b1>>
         ELSE IF cs[4] = Pad THEN <<b1, b2>>
         ELSE <<b1, b2, b3>> \o Base64Decode(SubSeq(cs, 5, Len(cs)))

\* C5: once the body is read, the status decides: every 2xx status returns
\* the whole response body and a nil error; every other status returns no
\* bytes and an error whose text contains the status code in decimal, and the
\* body goes to the logger, not into the error.
C5_StatusClassification ==
    Classified =>
        IF resp.StatusCode \in 200..299
        THEN /\ ret.err = NilErr
             /\ ret.bytes = Bytes(resp.Body)
        ELSE /\ ret.err # NilErr
             /\ ret.bytes.nil
             /\ Contains(ErrorText(ret.err), FormatInt(resp.StatusCode))
             /\ \E i \in DOMAIN log :
                   /\ log[i].level = "warn"
                   /\ log[i].msg = "HTTP request failed"
                   /\ log[i].body = String(resp.Body)
             /\ resp.Body # <<>> => ~Contains(ErrorText(ret.err), String(resp.Body))

\* A 2xx status other than 200 returned a two-byte body.
C5_Witness ==
    /\ pc = "done"
    /\ Classified
    /\ resp.StatusCode = 204
    /\ Len(resp.Body) = 2
    /\ ret.bytes = Bytes(resp.Body)

\* C6 as stated: whatever the outcome of a request that was sent (success,
\* non-2xx status, failed read, transport failure), the response body has been
\* closed exactly once when the call returns.
C6_ClosedOnceOnEveryOutcome ==
    (pc = "done" /\ request.built) => closeCount = 1

\* C6, amended: every response body the call obtained is closed exactly once by the
\* time the call has returned, whatever the outcome (success, non-2xx status,
\* failed read), never before the read is over, and nothing is closed when the
\* call obtained no response; a failing Close is logged and leaves the returned
\* bytes and error as the read and the status decided them.
C6_BodyClosedExactlyOnce ==
    /\ closeCount <= 1
    /\ pc \in {"read", "defer"} => closeCount = 0
    /\ pc = "done" => closeCount = (IF resp.present THEN 1 ELSE 0)
    /\ (pc = "done" /\ closeErr # NilErr) =>
          /\ \E i \in DOMAIN log :
                /\ log[i].level = "warn"
                /\ log[i].msg = "failed to close response body"
                /\ log[i].error = closeErr
          /\ ret.err = NilErr <=> (readErr = NilErr /\ resp.StatusCode \in 200..299)
          /\ ret.err = NilErr => ret.bytes = Bytes(resp.Body)
          /\ ret.err # NilErr => ret.bytes.nil
          /\ readErr # NilErr => ret.err = Wrap(<<"failed to read response body: ">>, readErr)

\* A read that failed half way, and a Close that failed after it.
C6_Witness ==
    /\ pc = "done"
    /\ resp.present
    /\ readErr # NilErr
    /\ Len(respBody) = 1
    /\ closeErr # NilErr
    /\ closeCount = 1

C10_BasicAuthIffBothSet ==
    request.built =>
        /\ "Authorization" \in DOMAIN request.Header
              <=> (Len(cfg.user) > 0 /\ Len(cfg.password) > 0)
        /\ "Authorization" \in DOMAIN request.Header =>
              /\ request.Header["Authorization"].scheme = "Basic"
              /\ Base64Decode(request.Header["Authorization"].credentials)
                    = cfg.user \o <<58>> \o cfg.password

\* A request with a three-byte username and a four-byte password was sent.
C10_Witness ==
    /\ pc = "done"
    /\ request.built
    /\ Len(cfg.user) = 3
    /\ Len(cfg.password) = 4
    /\ "Authorization" \in DOMAIN request.Header
    /\ Len(doCalls) = 1

====
